---- MODULE Spec2Model ----
(***************************************************************************)
(* State-machine model of recipes/kd_single_device.py                      *)
(* (KDRecipeSingleDevice and recipe_main).                                 *)
(*                                                                         *)
(* The recipe object is the function `recipe` from attribute names to      *)
(* values: an attribute that was never assigned is absent from its domain. *)
(* Optional configuration values (None in the source) are sequences of     *)
(* length 0 or 1.  A scalar tensor value is an exact rational <<n, d>>.    *)
(* A loss value or a gradient is the sequence of the micro-batches         *)
(* <<epoch, idx>> that contributed to it.                                  *)
(*                                                                         *)
(* The module-level names the file uses and does not bind itself (log,     *)
(* tqdm) are taken as bound by the environment.  The file reads            *)
(* self._profiler and the self.profiler_* attributes and never assigns     *)
(* them: cfg.env_profiler says whether the environment (a subclass, a      *)
(* harness) provides them, with the profiler_* values of cfg.              *)
(***************************************************************************)
EXTENDS Integers, Sequences, FiniteSets, TLC

VARIABLES
    cfg,        \* the DictConfig handed to recipe_main (never changes)
    pc,         \* position of recipe_main
    error,      \* "none", or the exception that ended the run
    recipe,     \* attributes of the KDRecipeSingleDevice object
    built,      \* collaborators instantiated by setup, in order
    checkpoint_dict, \* setup's local: what load_checkpoint returned
    model,      \* live training tensors of self._model ( << >> before setup)
    loop,       \* locals of train(): curr_epoch, idx, running_loss, num_tokens
    grads,      \* contributions accumulated in the parameters' .grad
    optSteps,   \* calls of self._optimizer.step()
    schedSteps, \* calls of self._lr_scheduler.step()
    saves,      \* calls of self._checkpointer.save_checkpoint, in order
    logs,       \* calls of self._metric_logger.log_dict, in order
    mem,        \* memory-history recording: [on |-> BOOLEAN, events |-> Seq]
    history,    \* set_epoch calls, loss steps and saves, in order
    ops         \* what the last step of recipe_main did, in order

vars == <<cfg, pc, error, recipe, built, checkpoint_dict, model, loop, grads, optSteps,
          schedSteps, saves, logs, mem, history, ops>>

----------------------------------------------------------------------------
(* Bounds of the explored configurations.                                  *)

MaxLen == 4
MaxAccum == 3
MaxCap == 2
MaxEpochs == 2
MaxLogEvery == 2
MaxRank == 2
MaxAlpha == 3
MaxWeight == 1
MaxCkptEpochs == 3
MaxRows == 3
MaxSeq == 3
MaxWait == 1
MaxWarmup == 1
MaxActive == 2

----------------------------------------------------------------------------
(* Exact rational arithmetic for tensor values.                            *)

Abs(n) == IF n < 0 THEN -n ELSE n

RECURSIVE GCD(_, _)
GCD(a, b) == IF b = 0 THEN a ELSE GCD(b, a % b)

RatNorm(n, d) == LET g == GCD(Abs(n), d) IN <<n \div g, d \div g>>

RatInt(n) == <<n, 1>>

RatAdd(x, y) == RatNorm(x[1] * y[2] + y[1] * x[2], x[2] * y[2])

RatScale(num, den, v) == RatNorm(num * v, den)

RECURSIVE Dot(_, _)
Dot(b, a) == IF b = << >> THEN 0 ELSE Head(b) * Head(a) + Dot(Tail(b), Tail(a))

None == << >>
Some(v) == <<v>>
SetAttrs(obj, new) == new @@ obj

----------------------------------------------------------------------------
(* __init__                                                                *)

\* lines 41-51: the precision gate on the resolved dtype
MutPrecisionGateAnyDevice(dtype, device, bf16_supported) ==
    IF dtype = "fp16" THEN "ValueError_fp16"
    ELSE IF dtype = "bf16" /\ ~bf16_supported
    THEN "RuntimeError_bf16" ELSE "none"

PrecisionGate(dtype, device, bf16_supported) ==
    IF dtype = "fp16" THEN "ValueError_fp16"
    ELSE IF dtype = "bf16" /\ device # "cpu" /\ ~bf16_supported
    THEN "RuntimeError_bf16" ELSE "none"

\* lines 53-67: the attributes __init__ assigns after the gate
InitAttrs(c) ==
    [ _output_dir |-> "out",
      _log_every_n_steps |-> c.log_every_n_steps,
      _log_peak_memory_stats |-> c.log_peak_memory_stats,
      seed |-> c.seed,
      epochs_run |-> 0,
      total_epochs |-> c.epochs,
      max_steps_per_epoch |-> c.max_steps_per_epoch,
      global_step |-> 0,
      _resume_from_checkpoint |-> c.resume_from_checkpoint,
      _save_adapter_weights_only |-> c.save_adapter_weights_only,
      _gradient_accumulation_steps |-> c.gradient_accumulation_steps,
      _clip_grad_norm |-> c.clip_grad_norm ]

\* the attributes train reads at lines 441 and 457-529 and no line of the
\* file assigns (the profiler setup of line 182 is commented out): present
\* only when the environment provides them
EnvAttrs(c) ==
    IF c.env_profiler
    THEN [ _profiler |-> "profiler",
           profiler_profile_memory |-> c.profiler_profile_memory,
           profiler_wait_steps |-> c.profiler_wait_steps,
           profiler_warmup_steps |-> c.profiler_warmup_steps,
           profiler_active_steps |-> c.profiler_active_steps ]
    ELSE << >>

\* lines 35-67, called at line 553; cfg.dtype stands for the dtype that
\* training.get_dtype resolved and cfg.bf16_supported for what
\* torch.cuda.is_bf16_supported reports
Construct ==
    /\ pc = "start"
    /\ LET gate == PrecisionGate(cfg.dtype, cfg.device, cfg.bf16_supported) IN
         IF gate # "none"
         THEN /\ pc' = "failed"
              /\ error' = gate
              /\ recipe' = SetAttrs(recipe, [_device |-> cfg.device, _dtype |-> cfg.dtype])
         ELSE /\ pc' = "constructed"
              /\ error' = error
              /\ recipe' = SetAttrs(recipe,
                     InitAttrs(cfg) @@ [_device |-> cfg.device, _dtype |-> cfg.dtype]
                     @@ EnvAttrs(cfg))
    /\ ops' = <<"__init__">>
    /\ UNCHANGED <<cfg, built, checkpoint_dict, model, loop, grads, optSteps,
                   schedSteps, saves, logs, mem, history>>

----------------------------------------------------------------------------
(* setup                                                                   *)

\* lines 79-84: what load_checkpoint raises or returns, given the bundle the
\* checkpointer read
MutLoadCheckpointNoRaise(resume, bundle) ==
    [err |-> "none", dict |-> bundle]

LoadCheckpoint(resume, bundle) ==
    IF resume
    THEN [err |-> "RuntimeError_resume", dict |-> << >>]
    ELSE [err |-> "none", dict |-> bundle]

\* lines 99-177: the statements of setup in program order, one per
\* collaborator
MutSetupOrderDataFirst ==
    <<"load_checkpoint", "model", "data", "optimizer", "loss", "tokenizer",
      "lr_scheduler">>

SetupOrder ==
    <<"load_checkpoint", "model", "tokenizer", "optimizer", "loss", "data",
      "lr_scheduler">>

\* the position of setup once the statement of a collaborator has completed
PcAfter(step) ==
    CASE step = "load_checkpoint" -> "ckpt_loaded"
      [] step = "model" -> "model_built"
      [] step = "tokenizer" -> "tokenizer_built"
      [] step = "optimizer" -> "optimizer_built"
      [] step = "loss" -> "loss_built"
      [] step = "data" -> "data_built"
      [] step = "lr_scheduler" -> "ready"

\* the position of setup at which the statement of a collaborator runs: the
\* previous statement has completed (the first runs on the constructed object)
PcBefore(step) ==
    LET i == CHOOSE j \in DOMAIN SetupOrder : SetupOrder[j] = step IN
      IF i = 1 THEN "constructed" ELSE PcAfter(SetupOrder[i - 1])

\* lines 93-99 and 69-84: metric logger, then load_checkpoint
SetupLoadCheckpoint ==
    /\ pc = PcBefore("load_checkpoint")
    /\ LET r == LoadCheckpoint(recipe._resume_from_checkpoint, cfg.checkpoint) IN
         /\ checkpoint_dict' = r.dict
         /\ IF r.err # "none"
            THEN pc' = "failed" /\ error' = r.err
            ELSE pc' = PcAfter("load_checkpoint") /\ error' = error
    /\ built' = built \o <<"metric_logger", "checkpointer">>
    /\ recipe' = SetAttrs(recipe, [_metric_logger |-> "open",
                                   _model_compile |-> cfg.compile,
                                   _checkpointer |-> "checkpointer"])
    /\ ops' = <<"log_config", "load_checkpoint">>
    /\ UNCHANGED <<cfg, model, loop, grads, optSteps, schedSteps, saves, logs,
                   mem, history>>

\* lines 198-207: the attributes _setup_model assigns
ModelAttrs(c) ==
    [ _lora_rank |-> c.lora_rank,
      _lora_alpha |-> c.lora_alpha,
      _lora_attn_modules |-> c.lora_attn_modules,
      _apply_lora_to_mlp |-> c.apply_lora_to_mlp,
      _apply_lora_to_output |-> c.apply_lora_to_output,
      adapter_params |-> {"lora_a", "lora_b"},
      _is_dora |-> FALSE ]

\* lines 198, 221-223: the instantiated LoRA layer (lora_a starts at values
\* that differ along the rank dimension, lora_b at zero) with the base weight
\* of the loaded checkpoint
LoadedModel(c, base_model_state_dict) ==
    [ weight |-> RatInt(base_model_state_dict.weight),
      lora_a |-> [i \in 1..c.lora_rank |-> c.lora_a_init + i - 1],
      lora_b |-> [i \in 1..c.lora_rank |-> 0],
      num_output_chunks |-> 0 ]

\* lines 102-112 and 189-255: _setup_model; the key and dtype validations of
\* lines 234-248 raise when the checkpoint does not fit the configured model
SetupModel ==
    /\ pc = PcBefore("model")
    /\ recipe' = SetAttrs(recipe, ModelAttrs(cfg))
    /\ built' = Append(built, "model")
    /\ IF ~cfg.checkpoint_fits
       THEN /\ pc' = "failed"
            /\ error' = "AssertionError_lora_keys"
            /\ model' = model
       ELSE /\ pc' = PcAfter("model")
            /\ error' = error
            /\ model' = LoadedModel(cfg, checkpoint_dict.model)
    /\ ops' = <<"_setup_model">>
    /\ UNCHANGED <<cfg, checkpoint_dict, loop, grads, optSteps, schedSteps,
                   saves, logs, mem, history>>

\* line 114
SetupTokenizer ==
    /\ pc = PcBefore("tokenizer")
    /\ pc' = PcAfter("tokenizer")
    /\ built' = Append(built, "tokenizer")
    /\ recipe' = SetAttrs(recipe, [_tokenizer |-> "tokenizer"])
    /\ ops' = <<"tokenizer">>
    /\ UNCHANGED <<cfg, error, checkpoint_dict, model, loop, grads, optSteps,
                   schedSteps, saves, logs, mem, history>>

\* lines 117-124 and 257-265 (opt_state_dict is None without resume)
SetupOptimizer ==
    /\ pc = PcBefore("optimizer")
    /\ pc' = PcAfter("optimizer")
    /\ built' = Append(built, "optimizer")
    /\ recipe' = SetAttrs(recipe, [_optimizer |-> "optimizer"])
    /\ ops' = <<"_setup_optimizer">>
    /\ UNCHANGED <<cfg, error, checkpoint_dict, model, loop, grads, optSteps,
                   schedSteps, saves, logs, mem, history>>

\* lines 127-144: the loss; a CEWithChunkedOutputLoss wires its chunk count
\* into the model
SetupLoss ==
    /\ pc = PcBefore("loss")
    /\ pc' = PcAfter("loss")
    /\ built' = Append(built, "loss")
    /\ recipe' = SetAttrs(recipe, [_loss_fn |-> "loss"])
    /\ model' = IF cfg.loss_chunks > 0
                THEN [model EXCEPT !.num_output_chunks = cfg.loss_chunks]
                ELSE model
    /\ ops' = <<"loss">>
    /\ UNCHANGED <<cfg, error, checkpoint_dict, loop, grads, optSteps,
                   schedSteps, saves, logs, mem, history>>

\* lines 148-152 and 283-329: sampler and dataloader
SetupData ==
    /\ pc = PcBefore("data")
    /\ pc' = PcAfter("data")
    /\ built' = built \o <<"sampler", "dataloader">>
    /\ recipe' = SetAttrs(recipe, [_sampler |-> "sampler",
                                   _dataloader |-> cfg.dataloader])
    /\ ops' = <<"_setup_data">>
    /\ UNCHANGED <<cfg, error, checkpoint_dict, model, loop, grads, optSteps,
                   schedSteps, saves, logs, mem, history>>

\* lines 161-168: _steps_per_epoch from the dataloader's length, the window
\* size and the optional cap
MutStepsPerEpochNoCap(len, accum, max_steps) == len \div accum

StepsPerEpoch(len, accum, max_steps) ==
    LET s == len \div accum IN
      IF max_steps # None /\ max_steps[1] < s THEN max_steps[1] ELSE s

\* line 169: global_step recomputed from epochs_run when the cap shortens
\* the epoch
MutCappedGlobalStepNextEpoch(epochs_run, steps_per_epoch) ==
    (epochs_run + 1) * steps_per_epoch

CappedGlobalStep(epochs_run, steps_per_epoch) == epochs_run * steps_per_epoch

\* line 175: the step budget handed to the learning-rate scheduler
MutNumTrainingStepsOneEpoch(total_epochs, steps_per_epoch) == steps_per_epoch

NumTrainingSteps(total_epochs, steps_per_epoch) == total_epochs * steps_per_epoch

\* lines 185-187: torch.full((batch_size, 1), ignore_index)
IgnoreLabelsCache(batch_size, ignore_index) ==
    [r \in 1..batch_size |-> <<ignore_index>>]

\* lines 161-187: step count, scheduler, ignore-label buffer
SetupScheduler ==
    /\ pc = PcBefore("lr_scheduler")
    /\ pc' = PcAfter("lr_scheduler")
    /\ built' = Append(built, "lr_scheduler")
    /\ LET spe == StepsPerEpoch(Len(recipe._dataloader),
                                recipe._gradient_accumulation_steps,
                                recipe.max_steps_per_epoch)
           capped == /\ recipe.max_steps_per_epoch # None
                     /\ recipe.max_steps_per_epoch[1]
                          < Len(recipe._dataloader) \div recipe._gradient_accumulation_steps
           gs == IF capped THEN CappedGlobalStep(recipe.epochs_run, spe)
                           ELSE recipe.global_step
       IN recipe' = SetAttrs(recipe,
              [ _steps_per_epoch |-> spe,
                global_step |-> gs,
                _lr_scheduler |-> [num_training_steps |->
                                       NumTrainingSteps(recipe.total_epochs, spe),
                                   last_epoch |-> gs - 1],
                ignore_labels_cache |-> IgnoreLabelsCache(cfg.batch_size,
                                                          cfg.ignore_index) ])
    /\ ops' = <<"_setup_lr_scheduler">>
    /\ UNCHANGED <<cfg, error, checkpoint_dict, model, loop, grads, optSteps,
                   schedSteps, saves, logs, mem, history>>

----------------------------------------------------------------------------
(* save_checkpoint                                                         *)

\* line 344
MutIntermediateAlways(epoch, total_epochs) == epoch < total_epochs

IntermediateCheckpoint(epoch, total_epochs) == epoch + 1 < total_epochs

\* lines 346-355: the entries only an intermediate checkpoint carries
MutRecipeStateEntriesAlways(r, opt_state, intermediate) ==
    [ OPT_KEY |-> opt_state,
      SEED_KEY |-> r.seed,
      EPOCHS_KEY |-> r.epochs_run,
      TOTAL_EPOCHS_KEY |-> r.total_epochs,
      MAX_STEPS_KEY |-> r.max_steps_per_epoch ]

MutRecipeStateEntriesStaleEpoch(r, opt_state, intermediate) ==
    IF intermediate
    THEN [ OPT_KEY |-> opt_state,
           SEED_KEY |-> r.seed,
           EPOCHS_KEY |-> r.epochs_run - 1,
           TOTAL_EPOCHS_KEY |-> r.total_epochs,
           MAX_STEPS_KEY |-> r.max_steps_per_epoch ]
    ELSE << >>

RecipeStateEntries(r, opt_state, intermediate) ==
    IF intermediate
    THEN [ OPT_KEY |-> opt_state,
           SEED_KEY |-> r.seed,
           EPOCHS_KEY |-> r.epochs_run,
           TOTAL_EPOCHS_KEY |-> r.total_epochs,
           MAX_STEPS_KEY |-> r.max_steps_per_epoch ]
    ELSE << >>

\* line 358: the state dict with every tensor moved to the host.  Tensor.cpu()
\* returns the tensor itself when it already lives on the CPU and a copy
\* otherwise; ref says whose storage the entry holds.
HostStateDict(m, device) ==
    [ k \in {"weight", "lora_a", "lora_b"} |->
        [ref |-> IF device = "cpu" THEN "live" ELSE "host", val |-> m[k]] ]

\* torchtune.modules.peft.get_merged_lora_ckpt: for a LoRA layer the weight
\* entry of the given state dict becomes weight + (alpha / rank) * (B @ A),
\* written into the tensor the entry holds, and the adapter entries are
\* dropped.
GetMergedLoraCkpt(state_dict, rank, alpha) ==
    [ weight |->
        [ ref |-> state_dict.weight.ref,
          val |-> RatAdd(state_dict.weight.val,
                         RatScale(alpha, rank,
                                  Dot(state_dict.lora_b.val, state_dict.lora_a.val))) ] ]

\* lines 357-365: the merged state dict built from the live model
MutMergedStateDictSwapped(m, r) ==
    GetMergedLoraCkpt(HostStateDict(m, r._device), r._lora_alpha, r._lora_rank)

MergedStateDict(m, r) ==
    GetMergedLoraCkpt(HostStateDict(m, r._device), r._lora_rank, r._lora_alpha)

\* the live model once the merge has written its result
ModelAfterMerge(m, merged) ==
    IF merged.weight.ref = "live"
    THEN [m EXCEPT !.weight = merged.weight.val]
    ELSE m

\* lines 374-383
AdapterConfig(r) ==
    [ r |-> r._lora_rank,
      lora_alpha |-> r._lora_alpha,
      target_modules |-> <<r._lora_attn_modules, r._apply_lora_to_mlp,
                           r._apply_lora_to_output>>,
      peft_type |-> "LORA" ]

\* lines 342-384: the bundle handed to the checkpointer
CkptDict(m, r, opt_state, epoch) ==
    LET merged == MergedStateDict(m, r)
        after == ModelAfterMerge(m, merged)
    IN [ MODEL_KEY |-> [weight |-> merged.weight.val],
         ADAPTER_KEY |-> [k \in r.adapter_params |-> after[k]],
         ADAPTER_CONFIG |-> AdapterConfig(r) ]
       @@ RecipeStateEntries(r, opt_state,
                             IntermediateCheckpoint(epoch, r.total_epochs))

\* lines 386-391: the call of the checkpointer; io_ok is whether its write
\* succeeded
SaveCall(m, r, opt_state, epoch, io_ok) ==
    [ ckpt_dict |-> CkptDict(m, r, opt_state, epoch),
      epoch |-> epoch,
      intermediate_checkpoint |-> IntermediateCheckpoint(epoch, r.total_epochs),
      adapter_only |-> r._save_adapter_weights_only,
      ok |-> io_ok ]

----------------------------------------------------------------------------
(* _loss_step                                                              *)

\* batch["tokens"].numel() of a [rows, len] tensor (line 466)
Numel(t) == IF t = << >> THEN 0 ELSE Len(t) * Len(t[1])

\* t[:n] on the first dimension (line 411)
SliceRows(t, n) == [r \in 1..(IF n < Len(t) THEN n ELSE Len(t)) |-> t[r]]

\* torch.hstack of two 2-d tensors (line 410): the rows are joined; it raises
\* when the row counts differ, which no batch of the DataLoader reaches, as
\* the DataLoader and the buffer are built with the same batch_size (lines
\* 151, 186); << >> stands for that case
HStack(x, y) ==
    IF Len(x) = Len(y) THEN [r \in 1..Len(x) |-> x[r] \o y[r]] ELSE << >>

\* lines 410-412: labels[..., 1:] joined with the ignore column
MutShiftLabelsWholeCache(labels, cache) ==
    HStack([r \in 1..Len(labels) |-> Tail(labels[r])], cache)

ShiftLabels(labels, cache) ==
    HStack([r \in 1..Len(labels) |-> Tail(labels[r])],
           SliceRows(cache, Len(labels)))

\* labels.reshape(-1) (line 414)
RECURSIVE Flatten(_)
Flatten(t) == IF t = << >> THEN << >> ELSE Head(t) \o Flatten(Tail(t))

\* lines 413-418: the labels handed to self._loss_fn; the model returns a
\* list of logit chunks exactly when its num_output_chunks was set (line 131)
LossLabels(shifted, logits_is_list) ==
    IF logits_is_list
    THEN [shape |-> <<Len(shifted), Len(shifted[1])>>, data |-> shifted]
    ELSE [shape |-> <<Len(Flatten(shifted))>>, data |-> Flatten(shifted)]

----------------------------------------------------------------------------
(* train                                                                   *)

\* lines 450-455: the step cap that ends an epoch early
MutCapReachedOffByOne(idx, accum, max_steps) ==
    max_steps # None /\ (idx \div accum) = max_steps[1] + 1

CapReached(idx, accum, max_steps) ==
    max_steps # None /\ (idx \div accum) = max_steps[1]

\* line 475: the last micro-batch of an accumulation window
MutIsWindowEndEvery(idx, accum) == TRUE

IsWindowEnd(idx, accum) == (idx + 1) % accum = 0

\* line 494: per-step metrics are logged when the step count just reached is
\* a multiple of the logging period
MutLogDueAlways(global_step, log_every_n_steps) == TRUE

LogDue(global_step, log_every_n_steps) == global_step % log_every_n_steps = 0

\* lines 496-510: the keys of the logged dictionary
LogKeys(r) ==
    {"loss", "lr", "tokens_per_second_per_gpu"}
      \cup (IF r._device = "cuda" /\ r._log_peak_memory_stats
            THEN {"peak_memory"} ELSE {})
      \cup (IF r._clip_grad_norm # None THEN {"grad_norm"} ELSE {})

\* lines 457-461: memory-history recording starts on this micro-batch
MutMemoryOnAnyEpoch(curr_epoch, idx, r) ==
    /\ r.profiler_profile_memory
    /\ idx = r.profiler_wait_steps + r.profiler_warmup_steps

MemoryOn(curr_epoch, idx, r) ==
    /\ curr_epoch = 0
    /\ r.profiler_profile_memory
    /\ idx = r.profiler_wait_steps + r.profiler_warmup_steps

\* lines 521-527: memory-history recording stops after this micro-batch
MutMemoryOffAtEnable(curr_epoch, idx, r) ==
    /\ curr_epoch = 0
    /\ r.profiler_profile_memory
    /\ idx = r.profiler_wait_steps + r.profiler_warmup_steps

MemoryOff(curr_epoch, idx, r) ==
    /\ curr_epoch = 0
    /\ r.profiler_profile_memory
    /\ idx = r.profiler_wait_steps + r.profiler_warmup_steps
             + r.profiler_active_steps

Opt(c, s) == IF c THEN s ELSE << >>

\* lines 475-518: the statements of the optimizer-step branch in program
\* order, named by what they do
MutBoundaryOpsZeroFirst(clip, logNow) ==
    <<"zero_grad">>
      \o Opt(clip, <<"clip_grad_norm">>)
      \o <<"optimizer_step", "lr_scheduler_step", "global_step">>
      \o Opt(logNow, <<"log_dict">>)
      \o <<"reset">>

BoundaryOps(clip, logNow) ==
    Opt(clip, <<"clip_grad_norm">>)
      \o <<"optimizer_step", "zero_grad", "lr_scheduler_step", "global_step">>
      \o Opt(logNow, <<"log_dict">>)
      \o <<"reset">>

\* lines 466 and 515-517: the token counter after an iteration; it is reset
\* in the optimizer-step branch, whether or not the step was logged
MutNumTokensResetAtLog(tokens, stepNow, logNow) == IF logNow THEN 0 ELSE tokens

NumTokensAfter(tokens, stepNow, logNow) == IF stepNow THEN 0 ELSE tokens


\* lines 431-443: the locals of train and the epoch range; reading
\* self._profiler at line 441 raises when the attribute does not exist
TrainStart ==
    /\ pc = "ready"
    /\ IF "_profiler" \in DOMAIN recipe
       THEN /\ pc' = "epoch_head"
            /\ error' = error
            /\ loop' = [ running_loss |-> << >>,
                         num_tokens |-> 0,
                         curr_epoch |-> recipe.epochs_run,
                         stop_epoch |-> recipe.total_epochs,
                         idx |-> 0,
                         batch |-> << >>,
                         shifted |-> << >>,
                         loss_labels |-> << >> ]
       ELSE /\ pc' = "failed"
            /\ error' = "AttributeError_profiler"
            /\ loop' = loop
    /\ ops' = <<"train">>
    /\ UNCHANGED <<cfg, recipe, built, checkpoint_dict, model, grads,
                   optSteps, schedSteps, saves, logs, mem, history>>

\* line 446: the epoch number the sampler is told
MutSetEpochArgFirst(curr_epoch) == 0

SetEpochArg(curr_epoch) == curr_epoch

\* lines 443-449: the next epoch of the range begins
EpochStart ==
    /\ pc = "epoch_head"
    /\ loop.curr_epoch < loop.stop_epoch
    /\ pc' = "batches"
    /\ loop' = [loop EXCEPT !.idx = 0]
    /\ history' = Append(history, <<"set_epoch", SetEpochArg(loop.curr_epoch)>>)
    /\ ops' = <<"set_epoch">>
    /\ UNCHANGED <<cfg, error, recipe, built, checkpoint_dict, model, grads,
                   optSteps, schedSteps, saves, logs, mem>>

\* lines 449-534: one iteration of the loop over the dataloader
MicroBatch ==
    /\ pc = "batches"
    /\ loop.idx < Len(recipe._dataloader)
    /\ ~CapReached(loop.idx, recipe._gradient_accumulation_steps,
                   recipe.max_steps_per_epoch)
    /\ \E d \in cfg.opt_deltas :
         LET e == loop.curr_epoch
             idx == loop.idx
             memOn == MemoryOn(e, idx, recipe)
             memOff == MemoryOff(e, idx, recipe)
             batch == recipe._dataloader[idx + 1]
             tokens == loop.num_tokens + Numel(batch.tokens)
             shifted == ShiftLabels(batch.labels, recipe.ignore_labels_cache)
             lossLabels == LossLabels(shifted, model.num_output_chunks > 0)
             running == Append(loop.running_loss, <<e, idx>>)
             g == Append(grads, <<e, idx>>)
             stepNow == IsWindowEnd(idx, recipe._gradient_accumulation_steps)
             clip == recipe._clip_grad_norm # None
             gs == recipe.global_step + 1
             logNow == stepNow /\ LogDue(gs, recipe._log_every_n_steps)
         IN /\ history' = Append(history, <<"loss_step", e, idx>>)
            /\ mem' = [ on |-> IF memOff THEN FALSE ELSE IF memOn THEN TRUE ELSE mem.on,
                        events |-> mem.events \o Opt(memOn, << <<"on", e, idx>> >>)
                                              \o Opt(memOff, << <<"off", e, idx>> >>) ]
            /\ IF stepNow
               THEN /\ optSteps' = Append(optSteps,
                                          [grads |-> g, loss |-> running, clipped |-> clip,
                                           at |-> Len(history) + 1])
                    /\ model' = [model EXCEPT
                                   !.lora_a = [i \in DOMAIN @ |-> @[i] + d[1]],
                                   !.lora_b = [i \in DOMAIN @ |-> @[i] + d[2]]]
                    /\ grads' = << >>
                    /\ schedSteps' = schedSteps + 1
                    /\ recipe' = [recipe EXCEPT !.global_step = gs]
                    /\ logs' = logs \o Opt(logNow,
                                 << [ step |-> gs, loss |-> running,
                                      num_tokens |-> tokens,
                                      at |-> Len(history) + 1,
                                      keys |-> LogKeys(recipe) ] >>)
                    /\ loop' = [loop EXCEPT !.running_loss = << >>,
                                            !.num_tokens =
                                                NumTokensAfter(tokens, stepNow, logNow),
                                            !.idx = idx + 1,
                                            !.batch = batch,
                                            !.shifted = shifted,
                                            !.loss_labels = lossLabels]
               ELSE /\ grads' = g
                    /\ loop' = [loop EXCEPT !.running_loss = running,
                                            !.num_tokens =
                                                NumTokensAfter(tokens, stepNow, logNow),
                                            !.idx = idx + 1,
                                            !.batch = batch,
                                            !.shifted = shifted,
                                            !.loss_labels = lossLabels]
                    /\ UNCHANGED <<optSteps, model, schedSteps, recipe, logs>>
            /\ ops' = Opt(memOn, <<"mem_on">>)
                       \o <<"loss_step", "backward">>
                       \o Opt(stepNow, BoundaryOps(clip, logNow))
                       \o Opt(memOff, <<"mem_off">>)
                       \o <<"prof_step">>
    /\ UNCHANGED <<cfg, pc, error, built, checkpoint_dict, saves>>

\* lines 386-391 and 537: the checkpointer call is not wrapped in a handler in
\* save_checkpoint, train or recipe_main, so its exception ends the run
MutSaveOutcomeCaught(io_ok) ==
    IF io_ok THEN [pc |-> "epoch_head", error |-> "none"]
             ELSE [pc |-> "epoch_head", error |-> "IOError_save"]

SaveOutcome(io_ok) ==
    IF io_ok THEN [pc |-> "epoch_head", error |-> "none"]
             ELSE [pc |-> "failed", error |-> "IOError_save"]

\* lines 449-455 and 536-537: the dataloader is exhausted or the cap breaks
\* the loop; epochs_run is incremented and the checkpoint saved
EpochEnd ==
    /\ pc = "batches"
    /\ \/ loop.idx >= Len(recipe._dataloader)
       \/ CapReached(loop.idx, recipe._gradient_accumulation_steps,
                     recipe.max_steps_per_epoch)
    /\ \E io_ok \in cfg.save_outcomes :
         LET r == [recipe EXCEPT !.epochs_run = @ + 1]
             call == SaveCall(model, r, Len(optSteps), loop.curr_epoch, io_ok)
         IN /\ recipe' = r
            /\ saves' = Append(saves, call)
            /\ model' = ModelAfterMerge(model, MergedStateDict(model, r))
            /\ pc' = SaveOutcome(io_ok).pc
            /\ error' = SaveOutcome(io_ok).error
    /\ history' = Append(history, <<"save", loop.curr_epoch>>)
    /\ loop' = [loop EXCEPT !.curr_epoch = @ + 1]
    /\ ops' = <<"epochs_run", "save_checkpoint">>
    /\ UNCHANGED <<cfg, built, checkpoint_dict, grads, optSteps, schedSteps,
                   logs, mem>>

\* line 443: the epoch range is exhausted and train returns
TrainReturn ==
    /\ pc = "epoch_head"
    /\ loop.curr_epoch >= loop.stop_epoch
    /\ pc' = "trained"
    /\ ops' = <<"return">>
    /\ UNCHANGED <<cfg, error, recipe, built, checkpoint_dict, model, loop,
                   grads, optSteps, schedSteps, saves, logs, mem, history>>

\* lines 539-540, called at line 556
Cleanup ==
    /\ pc = "trained"
    /\ pc' = "done"
    /\ recipe' = [recipe EXCEPT !._metric_logger = "closed"]
    /\ ops' = <<"cleanup">>
    /\ UNCHANGED <<cfg, error, built, checkpoint_dict, model, loop, grads,
                   optSteps, schedSteps, saves, logs, mem, history>>

Next ==
    \/ Construct
    \/ SetupLoadCheckpoint
    \/ SetupModel
    \/ SetupTokenizer
    \/ SetupOptimizer
    \/ SetupLoss
    \/ SetupData
    \/ SetupScheduler
    \/ TrainStart
    \/ EpochStart
    \/ MicroBatch
    \/ EpochEnd
    \/ TrainReturn
    \/ Cleanup

----------------------------------------------------------------------------
(* Configurations and specifications                                       *)

Optional(S) == {None} \cup {Some(v) : v \in S}

\* a batch of the DataLoader: tokens and labels of shape [rows, len]; the
\* labels are all different ("distinct") or end in ignored padding ("padded")
Batch(rows, len, fill, ignore_index) ==
    [ tokens |-> [r \in 1..rows |-> [i \in 1..len |-> 0]],
      labels |-> [r \in 1..rows |->
                    [i \in 1..len |->
                       IF fill = "padded" /\ i = len
                       THEN ignore_index ELSE (r - 1) * len + i]] ]

\* batches of one row; batch i holds i tokens
Batches(len) == [i \in 1..len |-> Batch(1, i, "distinct", -100)]

DefaultCfg ==
    [ device |-> "cuda",
      bf16_supported |-> TRUE,
      dtype |-> "bf16",
      seed |-> 1234,
      epochs |-> 1,
      max_steps_per_epoch |-> None,
      resume_from_checkpoint |-> FALSE,
      save_adapter_weights_only |-> FALSE,
      gradient_accumulation_steps |-> 1,
      clip_grad_norm |-> None,
      log_every_n_steps |-> 1,
      log_peak_memory_stats |-> FALSE,
      compile |-> FALSE,
      batch_size |-> 2,
      ignore_index |-> -100,
      loss_chunks |-> 0,
      dataloader |-> Batches(2),
      checkpoint |-> [model |-> [weight |-> 1]],
      checkpoint_fits |-> TRUE,
      lora_rank |-> 1,
      lora_alpha |-> 1,
      lora_a_init |-> 1,
      lora_attn_modules |-> <<"q_proj", "v_proj">>,
      apply_lora_to_mlp |-> FALSE,
      apply_lora_to_output |-> FALSE,
      opt_deltas |-> {<<0, 1>>},
      save_outcomes |-> {TRUE},
      env_profiler |-> TRUE,
      profiler_profile_memory |-> FALSE,
      profiler_wait_steps |-> 0,
      profiler_warmup_steps |-> 0,
      profiler_active_steps |-> 0 ]

\* the state before recipe_main constructs the recipe
InitWith(c) ==
    /\ cfg = c
    /\ pc = "start"
    /\ error = "none"
    /\ recipe = << >>
    /\ built = << >>
    /\ checkpoint_dict = << >>
    /\ model = << >>
    /\ loop = << >>
    /\ grads = << >>
    /\ optSteps = << >>
    /\ schedSteps = 0
    /\ saves = << >>
    /\ logs = << >>
    /\ mem = [on |-> FALSE, events |-> << >>]
    /\ history = << >>
    /\ ops = << >>

\* the training loop over dataloader lengths, window sizes, caps and epochs
Init ==
    \E len \in 0..MaxLen, accum \in 1..MaxAccum, cap \in Optional(0..MaxCap),
       epochs \in 0..MaxEpochs, clip \in Optional({1}), every \in 1..MaxLogEvery :
      InitWith([ dataloader |-> Batches(len),
                 gradient_accumulation_steps |-> accum,
                 max_steps_per_epoch |-> cap,
                 epochs |-> epochs,
                 clip_grad_norm |-> clip,
                 log_every_n_steps |-> every,
                 save_outcomes |-> BOOLEAN ] @@ DefaultCfg)

Spec == Init /\ [][Next]_vars

\* checkpoint construction over devices, ranks, alphas, weights and updates
InitCkpt ==
    \E device \in {"cpu", "cuda"}, rank \in 1..MaxRank, alpha \in 1..MaxAlpha,
       w \in (-MaxWeight)..MaxWeight, epochs \in 1..MaxCkptEpochs,
       adapter_only \in BOOLEAN, cap \in Optional({1}) :
      InitWith([ device |-> device,
                 lora_rank |-> rank,
                 lora_alpha |-> alpha,
                 checkpoint |-> [model |-> [weight |-> w]],
                 epochs |-> epochs,
                 save_adapter_weights_only |-> adapter_only,
                 max_steps_per_epoch |-> cap,
                 opt_deltas |-> {<<0, 1>>, <<1, -1>>} ] @@ DefaultCfg)

SpecCkpt == InitCkpt /\ [][Next]_vars

\* construction and setup over dtypes, devices and the resume flag
InitGate ==
    \E dtype \in {"fp32", "bf16", "fp16"}, device \in {"cpu", "cuda"},
       bf16_supported \in BOOLEAN, resume \in BOOLEAN, fits \in BOOLEAN,
       chunks \in {0, 8}, epochs \in 0..MaxEpochs, w \in (-MaxWeight)..MaxWeight :
      InitWith([ dtype |-> dtype,
                 device |-> device,
                 bf16_supported |-> bf16_supported,
                 resume_from_checkpoint |-> resume,
                 checkpoint_fits |-> fits,
                 loss_chunks |-> chunks,
                 epochs |-> epochs,
                 checkpoint |-> [model |-> [weight |-> w]] ] @@ DefaultCfg)

SpecGate == InitGate /\ [][Next]_vars

\* the loss step over batch shapes: two batches per epoch, the first with
\* batch_size rows and the last with at most that many
InitShift ==
    \E batch_size \in 1..MaxRows, seq \in 1..MaxSeq, fill \in {"distinct", "padded"},
       ignore_index \in {-100, -1}, chunks \in {0, 8} :
      \E last_rows \in 1..batch_size :
        InitWith([ batch_size |-> batch_size,
                   ignore_index |-> ignore_index,
                   loss_chunks |-> chunks,
                   dataloader |-> << Batch(batch_size, seq, fill, ignore_index),
                                     Batch(last_rows, seq, fill, ignore_index) >>
                 ] @@ DefaultCfg)

SpecShift == InitShift /\ [][Next]_vars

\* the memory-recording window over offsets, dataloader lengths and caps
InitProf ==
    \E profile \in BOOLEAN, wait \in 0..MaxWait, warmup \in 0..MaxWarmup,
       active \in 0..MaxActive, len \in 0..MaxLen, accum \in {1, 2},
       cap \in Optional({1}), epochs \in 1..MaxEpochs :
      InitWith([ profiler_profile_memory |-> profile,
                 profiler_wait_steps |-> wait,
                 profiler_warmup_steps |-> warmup,
                 profiler_active_steps |-> active,
                 dataloader |-> Batches(len),
                 gradient_accumulation_steps |-> accum,
                 max_steps_per_epoch |-> cap,
                 epochs |-> epochs ] @@ DefaultCfg)

SpecProf == InitProf /\ [][Next]_vars

\* recipe_main with and without an environment that provides the profiler
\* attributes
InitMain ==
    \E env \in BOOLEAN, len \in 0..MaxLen, accum \in 1..MaxAccum,
       cap \in Optional(0..MaxCap), epochs \in 0..MaxEpochs :
      InitWith([ env_profiler |-> env,
                 dataloader |-> Batches(len),
                 gradient_accumulation_steps |-> accum,
                 max_steps_per_epoch |-> cap,
                 epochs |-> epochs ] @@ DefaultCfg)

SpecMain == InitMain /\ [][Next]_vars

----------------------------------------------------------------------------
(* Properties                                                              *)

Has(attr) == attr \in DOMAIN recipe

GlobalStep == IF Has("global_step") THEN recipe.global_step ELSE 0

EpochsRun == IF Has("epochs_run") THEN recipe.epochs_run ELSE 0

\* the loss steps of epoch e so far
LossSteps(e) ==
    {i \in DOMAIN history : history[i][1] = "loss_step" /\ history[i][2] = e}

\* the optimizer steps taken on a micro-batch of epoch e
OptStepsIn(e) ==
    {i \in DOMAIN optSteps : optSteps[i].grads[Len(optSteps[i].grads)][1] = e}

SaveSteps(e) ==
    {i \in DOMAIN history : history[i] = <<"save", e>>}

RecipeStateKeys ==
    {"OPT_KEY", "SEED_KEY", "EPOCHS_KEY", "TOTAL_EPOCHS_KEY", "MAX_STEPS_KEY"}

\* C1: a save_checkpoint call leaves every tensor of the live model with the
\* value it had before the call, on every device and at every save.
C1_SaveKeepsLiveModel ==
    [][Len(saves') > Len(saves) => model' = model]_vars

\* C2: global_step grows by exactly 1 together with each optimizer step and
\* not at all on a micro-batch that is not the last of its window, and the
\* numbers of optimizer steps, scheduler steps and global_step are equal in
\* every state.
C2_GlobalStepCountsOptimizerSteps ==
    /\ [](Len(optSteps) = GlobalStep /\ schedSteps = GlobalStep)
    /\ [][ /\ \/ (GlobalStep' = GlobalStep /\ Len(optSteps') = Len(optSteps))
             \/ (GlobalStep' = GlobalStep + 1 /\ Len(optSteps') = Len(optSteps) + 1)
          /\ ( /\ pc = "batches"
               /\ (loop.idx + 1) % cfg.gradient_accumulation_steps # 0 )
             => GlobalStep' = GlobalStep ]_vars

C2_Witness ==
    /\ pc = "batches"
    /\ cfg.gradient_accumulation_steps = 2
    /\ GlobalStep = 3
    /\ Len(grads) = 1

\* C3: every optimizer step consumes a running loss and gradients made of
\* exactly gradient_accumulation_steps micro-batches, and the running loss is
\* empty right after it.
C3_StepConsumesOneWindow ==
    /\ \A i \in DOMAIN optSteps :
         /\ Len(optSteps[i].grads) = cfg.gradient_accumulation_steps
         /\ Len(optSteps[i].loss) = cfg.gradient_accumulation_steps
    /\ (pc = "batches" /\ ops # << >> /\ "optimizer_step" \in {ops[j] : j \in DOMAIN ops})
         => loop.running_loss = << >>

\* C4: whenever epochs_run has just been incremented and the checkpoint
\* saved, and when train has returned, global_step equals
\* epochs_run * _steps_per_epoch.
C4_GlobalStepAtEpochBoundary ==
    ( \/ pc \in {"epoch_head", "trained", "done"}
      \/ (pc = "failed" /\ error = "IOError_save") )
    => recipe.global_step = recipe.epochs_run * recipe._steps_per_epoch

C4_Witness ==
    /\ pc = "trained"
    /\ recipe.epochs_run = 2
    /\ cfg.max_steps_per_epoch = Some(1)
    /\ cfg.gradient_accumulation_steps = 2
    /\ Len(cfg.dataloader) = 3
    /\ recipe.global_step = 2

\* C5: with max_steps_per_epoch = m and window k no epoch has more than m*k
\* loss steps or more than m optimizer steps; without a cap an epoch that
\* ended has processed every batch of the dataloader.
C5_CapBoundsEpoch ==
    \A e \in 0..MaxEpochs :
      /\ cfg.max_steps_per_epoch # None =>
           /\ Cardinality(LossSteps(e))
                <= cfg.max_steps_per_epoch[1] * cfg.gradient_accumulation_steps
           /\ Cardinality(OptStepsIn(e)) <= cfg.max_steps_per_epoch[1]
      /\ (cfg.max_steps_per_epoch = None /\ SaveSteps(e) # {}) =>
           Cardinality(LossSteps(e)) = Len(cfg.dataloader)

C5_Witness ==
    /\ pc = "trained"
    /\ cfg.max_steps_per_epoch = Some(1)
    /\ cfg.gradient_accumulation_steps = 2
    /\ Len(cfg.dataloader) = 4
    /\ SaveSteps(1) # {}
    /\ Cardinality(LossSteps(1)) = 2
    /\ Cardinality(OptStepsIn(1)) = 1

\* C6: the checkpointer's save is called once per completed epoch, in
\* increasing epoch order and after every loss step of that epoch, marked
\* intermediate exactly when epoch + 1 < total_epochs; a finished run has
\* made total_epochs saves.
C6_OneSavePerEpoch ==
    /\ Len(saves) = EpochsRun
    /\ \A i \in DOMAIN saves :
         /\ saves[i].epoch = i - 1
         /\ saves[i].intermediate_checkpoint = (i < cfg.epochs)
    /\ \A e \in 0..MaxEpochs :
         /\ Cardinality(SaveSteps(e)) <= 1
         /\ \A i \in SaveSteps(e), j \in LossSteps(e) : j < i
         /\ \A i \in SaveSteps(e), j \in SaveSteps(e + 1) : i < j
    /\ pc \in {"trained", "done"} => Len(saves) = cfg.epochs

C6_Witness ==
    /\ pc = "trained"
    /\ Len(saves) = 2
    /\ saves[1].intermediate_checkpoint
    /\ ~saves[2].intermediate_checkpoint
    /\ Cardinality(LossSteps(0)) = 4

\* C7: every bundle handed to the checkpointer holds MODEL_KEY, ADAPTER_KEY
\* and ADAPTER_CONFIG, and holds each of OPT_KEY, SEED_KEY, EPOCHS_KEY,
\* TOTAL_EPOCHS_KEY and MAX_STEPS_KEY exactly when epoch + 1 < total_epochs;
\* save_adapter_weights_only is only forwarded as adapter_only.
C7_BundleKeys ==
    \A i \in DOMAIN saves :
      LET keys == DOMAIN saves[i].ckpt_dict IN
        /\ {"MODEL_KEY", "ADAPTER_KEY", "ADAPTER_CONFIG"} \subseteq keys
        /\ \A k \in RecipeStateKeys :
             k \in keys <=> (saves[i].epoch + 1 < cfg.epochs)
        /\ saves[i].adapter_only = cfg.save_adapter_weights_only

C7_Witness ==
    /\ Len(saves) = 2
    /\ cfg.save_adapter_weights_only
    /\ "OPT_KEY" \in DOMAIN saves[1].ckpt_dict
    /\ "OPT_KEY" \notin DOMAIN saves[2].ckpt_dict
    /\ "MODEL_KEY" \in DOMAIN saves[2].ckpt_dict

GateErrors == {"ValueError_fp16", "RuntimeError_bf16"}

\* C9: construction fails with the fp16 error for dtype fp16 on every device,
\* with the bf16 error for bf16 on a non-CPU device without bf16 support, and
\* with neither for any other dtype and device; after a failed gate the
\* recipe has no seed, epoch or step attribute.
C9_PrecisionGate ==
    pc # "start" =>
      /\ cfg.dtype = "fp16" => (pc = "failed" /\ error = "ValueError_fp16")
      /\ (cfg.dtype = "bf16" /\ cfg.device # "cpu" /\ ~cfg.bf16_supported)
           => (pc = "failed" /\ error = "RuntimeError_bf16")
      /\ ( \/ cfg.dtype = "fp32"
           \/ (cfg.dtype = "bf16" /\ cfg.device = "cpu")
           \/ (cfg.dtype = "bf16" /\ cfg.bf16_supported) )
           => (error \notin GateErrors /\ Has("seed"))
      /\ error \in GateErrors =>
           {"seed", "epochs_run", "total_epochs", "max_steps_per_epoch",
            "global_step"} \cap DOMAIN recipe = {}

C9_Witness ==
    /\ pc = "failed"
    /\ error = "RuntimeError_bf16"
    /\ cfg.device = "cuda"
    /\ ~Has("seed")

\* C10: with resume_from_checkpoint set, setup ends at the checkpoint load
\* with the not-supported error and nothing after the checkpointer is built
\* and train never starts; without it, load_checkpoint returns the bundle the
\* checkpointer read, unchanged.
C10_ResumeRejected ==
    /\ (Has("_resume_from_checkpoint") /\ recipe._resume_from_checkpoint
          /\ pc # "constructed")
         => /\ pc = "failed"
            /\ error = "RuntimeError_resume"
            /\ built = <<"metric_logger", "checkpointer">>
            /\ model = << >>
            /\ loop = << >>
            /\ ~Has("_steps_per_epoch")
    /\ (Has("_resume_from_checkpoint") /\ ~recipe._resume_from_checkpoint
          /\ pc # "constructed")
         => checkpoint_dict = cfg.checkpoint

C10_Witness ==
    /\ pc = "failed"
    /\ error = "RuntimeError_resume"
    /\ cfg.resume_from_checkpoint
    /\ built = <<"metric_logger", "checkpointer">>

\* C11 (as stated): the labels handed to the loss function have the shape of
\* the batch's labels, hold labels[b][i+1] at [b][i] for i < len-1 and the
\* ignore index at [b][len-1], and the batch's labels are unchanged.
C11_LossLabelsShifted ==
    (pc = "batches" /\ loop.batch # << >>) =>
      LET in == loop.batch.labels
          out == loop.loss_labels.data
      IN /\ loop.loss_labels.shape = <<Len(in), Len(in[1])>>
         /\ Len(out) = Len(in)
         /\ \A b \in DOMAIN in :
              /\ Len(out[b]) = Len(in[b])
              /\ \A i \in 1..(Len(in[b]) - 1) : out[b][i] = in[b][i + 1]
              /\ out[b][Len(in[b])] = cfg.ignore_index
         /\ loop.batch = cfg.dataloader[loop.idx]

\* C11 (amended): the labels computed by the shift have the shape of the
\* batch's labels, hold labels[b][i+1] at [b][i] for i < len-1 and the
\* ignore index at [b][len-1]; the loss function gets them as they are when
\* the model returns a list of logit chunks and flattened row by row
\* otherwise; the batch's labels are unchanged.
C11_ShiftThenFlatten ==
    (pc = "batches" /\ loop.batch # << >>) =>
      LET in == loop.batch.labels
          out == loop.shifted
          n == Len(in[1])
      IN /\ Len(out) = Len(in)
         /\ \A b \in DOMAIN in :
              /\ Len(out[b]) = n
              /\ \A i \in 1..(n - 1) : out[b][i] = in[b][i + 1]
              /\ out[b][n] = cfg.ignore_index
         /\ IF cfg.loss_chunks > 0
            THEN /\ loop.loss_labels.shape = <<Len(in), n>>
                 /\ loop.loss_labels.data = out
            ELSE /\ loop.loss_labels.shape = <<Len(in) * n>>
                 /\ Len(loop.loss_labels.data) = Len(in) * n
                 /\ \A b \in DOMAIN in : \A i \in 1..n :
                      loop.loss_labels.data[(b - 1) * n + i] = out[b][i]
         /\ loop.batch = cfg.dataloader[loop.idx]

C11_Witness ==
    /\ pc = "batches"
    /\ loop.idx = 2
    /\ cfg.batch_size = 3
    /\ Len(loop.batch.labels) = 2
    /\ Len(loop.batch.labels[1]) = 3
    /\ cfg.loss_chunks = 0
    /\ loop.loss_labels.data = <<2, 3, cfg.ignore_index, 5, 6, cfg.ignore_index>>

SetEpochs == {i \in DOMAIN history : history[i][1] = "set_epoch"}

\* C12: once setup has succeeded, a run that is over has left train normally
\* after exactly total_epochs epochs with epochs_run = total_epochs, and an
\* epoch that ended before the data was exhausted ended by the step cap.
C12_TrainRunsAllEpochs ==
    /\ (Has("_lr_scheduler") /\ pc \in {"failed", "trained", "done"})
         => /\ pc # "failed"
            /\ recipe.epochs_run = recipe.total_epochs
            /\ Cardinality(SetEpochs) = recipe.total_epochs
    /\ \A e \in 0..MaxEpochs :
         (SaveSteps(e) # {} /\ Cardinality(LossSteps(e)) < Len(cfg.dataloader))
           => /\ cfg.max_steps_per_epoch # None
              /\ Cardinality(LossSteps(e))
                   = cfg.max_steps_per_epoch[1] * cfg.gradient_accumulation_steps

BuiltAt(name) == {i \in DOMAIN built : built[i] = name}

Before(a, b) == \A j \in BuiltAt(b) : \E i \in BuiltAt(a) : i < j

\* C13: setup builds its collaborators in the order checkpoint load, model,
\* tokenizer, optimizer, loss, data pipeline, learning-rate scheduler: the
\* model exists before the loss wires its chunk count into it, tokenizer and
\* loss exist before the data pipeline, and the data pipeline (with
\* _steps_per_epoch) exists before the scheduler.
C13_SetupOrder ==
    /\ \E n \in 0..9 :
         built = SubSeq(<<"metric_logger", "checkpointer", "model", "tokenizer",
                          "optimizer", "loss", "sampler", "dataloader",
                          "lr_scheduler">>, 1, n)
    /\ Before("model", "loss")
    /\ (model # << >> /\ model.num_output_chunks > 0) => Has("_loss_fn")
    /\ Has("_loss_fn") => model # << >>
    /\ Before("tokenizer", "dataloader") /\ Before("loss", "dataloader")
    /\ Has("_dataloader") => (Has("_tokenizer") /\ Has("_loss_fn"))
    /\ Before("dataloader", "lr_scheduler")
    /\ Has("_lr_scheduler") => (Has("_dataloader") /\ Has("_steps_per_epoch"))

C13_Witness ==
    /\ pc = "ready"
    /\ Len(built) = 9
    /\ model.num_output_chunks > 0
    /\ recipe._lr_scheduler.num_training_steps
         = recipe.total_epochs * recipe._steps_per_epoch

\* C14: a log record is emitted exactly when an optimizer step brings
\* global_step to a multiple of log_every_n_steps, never on a micro-batch
\* without an optimizer step; the record carries the global_step just reached
\* and has a gradient norm exactly when clip_grad_norm is configured.
C14_LogOnMultiples ==
    [][ /\ (logs' # logs)
           <=> /\ Len(optSteps') = Len(optSteps) + 1
               /\ GlobalStep' = GlobalStep + 1
               /\ GlobalStep' % cfg.log_every_n_steps = 0
        /\ (logs' # logs)
           => /\ Len(logs') = Len(logs) + 1
              /\ SubSeq(logs', 1, Len(logs)) = logs
              /\ logs'[Len(logs')].step = GlobalStep'
              /\ ("grad_norm" \in logs'[Len(logs')].keys)
                   <=> (cfg.clip_grad_norm # None) ]_vars

C14_Witness ==
    /\ cfg.log_every_n_steps = 2
    /\ cfg.clip_grad_norm # None
    /\ cfg.gradient_accumulation_steps = 2
    /\ Len(optSteps) = 2
    /\ Len(logs) = 1
    /\ logs[1].step = 2
    /\ "grad_norm" \in logs[1].keys

\* the tokens of the micro-batches among the entries a..b of history
RECURSIVE TokensBetween(_, _)
TokensBetween(a, b) ==
    IF a > b THEN 0
    ELSE (IF history[a][1] = "loss_step"
          THEN LET t == cfg.dataloader[history[a][3] + 1].tokens
               IN Len(t) * Len(t[1])
          ELSE 0) + TokensBetween(a + 1, b)

\* C15: the token count of a log record is the total number of tokens of
\* all micro-batches processed since the previous log record (since the
\* start of train for the first record).
C15_TokensSinceLastLog ==
    \A k \in DOMAIN logs :
      logs[k].num_tokens
        = TokensBetween((IF k = 1 THEN 0 ELSE logs[k - 1].at) + 1, logs[k].at)

\* C15, amended: the token count of a log record is the total number of
\* tokens of all micro-batches processed since the previous optimizer step
\* (since the start of train for the first step), logged or not.
C15_TokensSinceLastStep ==
    \A k \in DOMAIN logs :
      LET j == logs[k].step IN
        /\ optSteps[j].at = logs[k].at
        /\ logs[k].num_tokens
             = TokensBetween((IF j = 1 THEN 0 ELSE optSteps[j - 1].at) + 1,
                             logs[k].at)

C15_Witness ==
    /\ cfg.log_every_n_steps = 2
    /\ Len(logs) = 2
    /\ logs[2].step = 4
    /\ logs[2].num_tokens < TokensBetween(logs[1].at + 1, logs[2].at)
    /\ logs[2].num_tokens = TokensBetween(optSteps[3].at + 1, logs[2].at)

EnableIdx == cfg.profiler_wait_steps + cfg.profiler_warmup_steps

DisableIdx == EnableIdx + cfg.profiler_active_steps

MemEvents(kind) == {i \in DOMAIN mem.events : mem.events[i][1] = kind}

\* C16: memory-history recording is switched on only in epoch 0 on the
\* micro-batch with index wait + warmup and off only in epoch 0 on the
\* micro-batch with index wait + warmup + active; it is never switched in a
\* later epoch or when memory profiling is not configured, and a switch-off
\* is always preceded by a switch-on.
C16_MemoryWindow ==
    /\ \A i \in MemEvents("on") :
         mem.events[i] = <<"on", 0, EnableIdx>> /\ cfg.profiler_profile_memory
    /\ \A i \in MemEvents("off") :
         /\ mem.events[i] = <<"off", 0, DisableIdx>>
         /\ cfg.profiler_profile_memory
         /\ \E j \in MemEvents("on") : j < i
    /\ Cardinality(MemEvents("on")) <= 1
    /\ Cardinality(MemEvents("off")) <= 1
    /\ mem.on <=> (MemEvents("on") # {} /\ MemEvents("off") = {})

C16_Witness ==
    /\ pc = "trained"
    /\ cfg.epochs = 2
    /\ cfg.profiler_active_steps = 1
    /\ mem.events = << <<"on", 0, EnableIdx>>, <<"off", 0, DisableIdx>> >>
    /\ Cardinality(LossSteps(1)) > DisableIdx
    /\ ~mem.on

\* C17: when epoch 0 has ended after the micro-batch at the enable offset and
\* before the micro-batch at the disable offset, recording stays enabled in
\* all remaining epochs and after train returns; when epoch 0 has ended
\* before the enable offset, recording is never enabled.
C17_WindowLeftOpen ==
    (SaveSteps(0) # {})
      => LET n == Cardinality(LossSteps(0)) IN
           /\ (cfg.profiler_profile_memory /\ EnableIdx < n /\ n <= DisableIdx)
                => mem.on
           /\ (n <= EnableIdx) => (~mem.on /\ mem.events = << >>)

C17_Witness ==
    /\ pc = "trained"
    /\ cfg.epochs = 2
    /\ cfg.max_steps_per_epoch # None
    /\ Cardinality(LossSteps(0)) < Len(cfg.dataloader)
    /\ Cardinality(LossSteps(0)) = DisableIdx
    /\ Cardinality(LossSteps(1)) > EnableIdx
    /\ mem.events = << <<"on", 0, EnableIdx>> >>
    /\ mem.on

C17_WitnessNeverEnabled ==
    /\ pc = "trained"
    /\ cfg.profiler_profile_memory
    /\ Cardinality(LossSteps(0)) = EnableIdx
    /\ Cardinality(LossSteps(0)) > 0
    /\ ~mem.on

\* C18: when the checkpointer's save fails for epoch e the failure ends the
\* run: that save was attempted once, nothing follows it (no micro-batch, no
\* save, no cleanup), and epochs_run is already e + 1.
C18_SaveFailureIsFatal ==
    (\E i \in DOMAIN saves : ~saves[i].ok)
      => LET e == saves[Len(saves)].epoch IN
           /\ pc = "failed"
           /\ error = "IOError_save"
           /\ \A i \in DOMAIN saves : saves[i].ok <=> i < Len(saves)
           /\ Cardinality({i \in DOMAIN saves : saves[i].epoch = e}) = 1
           /\ Cardinality(SaveSteps(e)) = 1
           /\ history[Len(history)] = <<"save", e>>
           /\ \A i \in DOMAIN history : history[i][2] <= e
           /\ recipe.epochs_run = e + 1
           /\ recipe._metric_logger = "open"

C18_Witness ==
    /\ error = "IOError_save"
    /\ Len(saves) = 2
    /\ saves[1].ok /\ ~saves[2].ok
    /\ saves[2].epoch = 1
    /\ recipe.epochs_run = 2
    /\ Cardinality(LossSteps(1)) > 0

\* C19: an intermediate bundle saved for epoch e holds the live seed,
\* epochs_run, total_epochs and max_steps_per_epoch of the moment of the save
\* under SEED_KEY, EPOCHS_KEY, TOTAL_EPOCHS_KEY and MAX_STEPS_KEY; EPOCHS_KEY
\* is e + 1 and the live global_step is EPOCHS_KEY * _steps_per_epoch.
C19_BundleRecordsState ==
    /\ \A i \in DOMAIN saves :
         saves[i].intermediate_checkpoint
           => /\ saves[i].ckpt_dict.EPOCHS_KEY = saves[i].epoch + 1
              /\ saves[i].ckpt_dict.SEED_KEY = recipe.seed
              /\ saves[i].ckpt_dict.TOTAL_EPOCHS_KEY = recipe.total_epochs
              /\ saves[i].ckpt_dict.MAX_STEPS_KEY = recipe.max_steps_per_epoch
    /\ (saves # << >> /\ pc \in {"epoch_head", "failed"}
          /\ saves[Len(saves)].intermediate_checkpoint)
         => LET b == saves[Len(saves)].ckpt_dict IN
              /\ b.EPOCHS_KEY = recipe.epochs_run
              /\ recipe.global_step = b.EPOCHS_KEY * recipe._steps_per_epoch

C19_Witness ==
    /\ pc = "epoch_head"
    /\ Len(saves) = 1
    /\ saves[1].intermediate_checkpoint
    /\ saves[1].ckpt_dict.EPOCHS_KEY = 1
    /\ saves[1].ckpt_dict.MAX_STEPS_KEY = Some(2)
    /\ saves[1].ckpt_dict.SEED_KEY = 1234
    /\ Len(cfg.dataloader) > 2 * cfg.gradient_accumulation_steps
    /\ recipe.global_step = 2

ConfigFields ==
    {"seed", "total_epochs", "max_steps_per_epoch", "_gradient_accumulation_steps",
     "_clip_grad_norm", "_save_adapter_weights_only", "adapter_params"}

Kept(f) == Has(f) => (f \in DOMAIN recipe' /\ recipe'[f] = recipe[f])

\* C20: once assigned, seed, total_epochs, max_steps_per_epoch,
\* gradient_accumulation_steps, clip_grad_norm, save_adapter_weights_only and
\* the key set of adapter_params never change; epochs_run and global_step
\* change only in a step of train; the step that saves changes nothing but
\* the epochs_run increment that precedes the save, and cleanup changes
\* nothing but the metric logger.
C20_Frame ==
    [][ /\ \A f \in ConfigFields : Kept(f)
        /\ (~Kept("epochs_run") \/ ~Kept("global_step")) => pc = "batches"
        /\ ~Kept("global_step")
             => /\ recipe'.global_step = recipe.global_step + 1
                /\ Len(optSteps') = Len(optSteps) + 1
                /\ Kept("epochs_run")
        /\ (saves' # saves)
             => /\ recipe'.epochs_run = recipe.epochs_run + 1
                /\ \A f \in DOMAIN recipe \ {"epochs_run"} : Kept(f)
        /\ ~Kept("epochs_run") => saves' # saves
        /\ (pc = "trained")
             => \A f \in DOMAIN recipe \ {"_metric_logger"} : Kept(f) ]_vars

C20_Witness ==
    /\ pc = "done"
    /\ recipe.epochs_run = 2
    /\ recipe.global_step = 2
    /\ recipe.max_steps_per_epoch = Some(1)
    /\ recipe._steps_per_epoch = 1
    /\ Len(cfg.dataloader) >= 2 * cfg.gradient_accumulation_steps
    /\ recipe._clip_grad_norm # None
    /\ recipe.adapter_params = {"lora_a", "lora_b"}
    /\ recipe._metric_logger = "closed"

IsBoundaryOp(op) ==
    op \in {"clip_grad_norm", "optimizer_step", "zero_grad", "lr_scheduler_step",
            "global_step", "log_dict", "reset"}

PositionIn(seq, op) == CHOOSE i \in DOMAIN seq : seq[i] = op

\* C21: on the last micro-batch of a window train performs, in this order,
\* the backward pass, gradient clipping (only when configured), the optimizer
\* step, the zeroing of gradients, the scheduler step, the increment of
\* global_step, the optional log record and the reset of running loss and
\* token counter; on any other micro-batch none of them happens and the
\* gradients are kept.
C21_BoundaryOrder ==
    [][ (Len(history') = Len(history) + 1
           /\ history'[Len(history')][1] = "loss_step")
        => LET e == history'[Len(history')][2]
               idx == history'[Len(history')][3]
               last == (idx + 1) % cfg.gradient_accumulation_steps = 0
               logged == last /\ (GlobalStep + 1) % cfg.log_every_n_steps = 0
           IN IF last
              THEN /\ SelectSeq(ops', IsBoundaryOp)
                        = (IF cfg.clip_grad_norm # None
                           THEN <<"clip_grad_norm">> ELSE << >>)
                          \o <<"optimizer_step", "zero_grad",
                               "lr_scheduler_step", "global_step">>
                          \o (IF logged THEN <<"log_dict">> ELSE << >>)
                          \o <<"reset">>
                   /\ \A i \in DOMAIN ops' :
                        IsBoundaryOp(ops'[i]) => PositionIn(ops', "backward") < i
                   /\ Len(optSteps') = Len(optSteps) + 1
                   /\ optSteps'[Len(optSteps')].grads = Append(grads, <<e, idx>>)
                   /\ optSteps'[Len(optSteps')].clipped = (cfg.clip_grad_norm # None)
                   /\ grads' = << >>
                   /\ schedSteps' = schedSteps + 1
                   /\ GlobalStep' = GlobalStep + 1
                   /\ logged
                        => /\ logs' # logs
                           /\ logs'[Len(logs')].step = GlobalStep'
                           /\ logs'[Len(logs')].loss = Append(loop.running_loss, <<e, idx>>)
                           /\ logs'[Len(logs')].num_tokens > 0
                   /\ loop'.running_loss = << >>
                   /\ loop'.num_tokens = 0
              ELSE /\ SelectSeq(ops', IsBoundaryOp) = << >>
                   /\ "backward" \in {ops'[i] : i \in DOMAIN ops'}
                   /\ grads' = Append(grads, <<e, idx>>)
                   /\ loop'.running_loss = Append(loop.running_loss, <<e, idx>>)
                   /\ UNCHANGED <<optSteps, schedSteps, logs, model>>
                   /\ GlobalStep' = GlobalStep ]_vars

C21_Witness ==
    /\ cfg.gradient_accumulation_steps = 2
    /\ cfg.clip_grad_norm # None
    /\ cfg.log_every_n_steps = 2
    /\ ops = <<"loss_step", "backward", "clip_grad_norm", "optimizer_step",
               "zero_grad", "lr_scheduler_step", "global_step", "log_dict",
               "reset", "prof_step">>
    /\ Len(optSteps) = 2
    /\ grads = << >>

C21_WitnessMidWindow ==
    /\ cfg.gradient_accumulation_steps = 2
    /\ ops = <<"loss_step", "backward", "prof_step">>
    /\ Len(optSteps) = 1
    /\ grads # << >>

SetEpochAt(e) == {i \in DOMAIN history : history[i] = <<"set_epoch", e>>}

\* C22: for each epoch e from epochs_run (0) to total_epochs - 1, in
\* increasing order, train calls set_epoch(e) exactly once, before any batch
\* of epoch e is fetched and after the checkpoint save of epoch e - 1.
C22_SetEpochOncePerEpoch ==
    /\ \A i \in SetEpochs :
         /\ history[i][2] = Cardinality({j \in SetEpochs : j < i})
         /\ history[i][2] < cfg.epochs
    /\ \A e \in 0..MaxEpochs :
         /\ Cardinality(SetEpochAt(e)) <= 1
         /\ \A i \in LossSteps(e) : \E j \in SetEpochAt(e) : j < i
         /\ \A i \in SaveSteps(e) : \E j \in SetEpochAt(e) : j < i
         /\ \A i \in SetEpochAt(e) :
              e > 0 => \E j \in SaveSteps(e - 1) :
                         /\ j < i
                         /\ \A k \in LossSteps(e - 1) : k < j
    /\ pc \in {"trained", "done"}
         => \A e \in 0..(cfg.epochs - 1) : Cardinality(SetEpochAt(e)) = 1

C22_Witness ==
    /\ pc = "trained"
    /\ cfg.epochs = 2
    /\ Cardinality(SetEpochAt(0)) = 1
    /\ Cardinality(SetEpochAt(1)) = 1
    /\ Cardinality(LossSteps(1)) >= 2
    /\ \E i \in SetEpochAt(1) : history[i - 1] = <<"save", 0>>

Min(a, b) == IF a < b THEN a ELSE b

\* C23: the step budget given to the scheduler in setup is total_epochs *
\* min(len(dataloader) \div gradient_accumulation_steps, max_steps_per_epoch)
\* (the division alone without a cap); the scheduler is never stepped more
\* often than that, and a complete run of train performs exactly that many
\* optimizer steps and scheduler steps.
C23_SchedulerBudget ==
    Has("_lr_scheduler")
      => LET perEpoch == Len(cfg.dataloader) \div cfg.gradient_accumulation_steps
             budget == cfg.epochs
                         * (IF cfg.max_steps_per_epoch = None THEN perEpoch
                            ELSE Min(perEpoch, cfg.max_steps_per_epoch[1]))
         IN /\ recipe._lr_scheduler.num_training_steps = budget
            /\ schedSteps <= budget
            /\ schedSteps = Len(optSteps)
            /\ pc \in {"trained", "done"} => schedSteps = budget

C23_Witness ==
    /\ pc = "trained"
    /\ cfg.epochs = 2
    /\ Len(cfg.dataloader) = 3
    /\ cfg.gradient_accumulation_steps = 2
    /\ cfg.max_steps_per_epoch = Some(2)
    /\ recipe._lr_scheduler.num_training_steps = 2
    /\ schedSteps = 2

====
